---- MODULE Spec2Model ----
(***************************************************************************)
(* A model of the inotify backend of Notify (backend-inotify/src/lib.rs)   *)
(* together with the error taxonomy of the backend crate                   *)
(* (backend/src/backend.rs).  The adapter owns a native inotify session    *)
(* and a Buffer; each poll reads one batch of native records, translates   *)
(* them, pushes them to the Buffer and polls the Buffer.                   *)
(***************************************************************************)
EXTENDS Integers, Sequences, FiniteSets, TLC

VARIABLES
    phase,       \* "Constructing" | "Active" | "Failed": what Backend::new produced
    newResult,   \* the NewBackendResult: NoResult, OkBackend or Err(ErrorWrap)
    session,     \* the native inotify session: [open, watches]
    registered,  \* history: the paths add_watch had registered when new returned
    setupFailed, \* history: Inotify::init or a call of add_watch failed
    newInput,    \* history: the paths new was called with and what failed natively
    kernel,      \* the native event queue of the session (records not yet read)
    buffer,      \* Backend.buffer: [closed, internal]
    last,        \* the result of the most recent poll
    obs,         \* history: items, overflow failures and the first end-of-stream seen
    readSoFar,   \* history: every native record read_events has returned
    nProcessed,  \* history: how many of them the loop of process_events visited
    closedAt,    \* history: Len(obs) when the buffer was closed, -1 while open
    closedWith,  \* history: the buffer's contents when it was closed
    arg,         \* the argument of the value-level function being applied
    ret          \* its result, NotApplied before

vars == <<phase, newResult, session, registered, setupFailed, newInput, kernel,
          buffer, last, obs, readSoFar, nProcessed, closedAt, closedWith, arg, ret>>

----------------------------------------------------------------------------
(* Option<T> *)
None == [some |-> FALSE]
Some(x) == [some |-> TRUE, val |-> x]

(* Bounds of the model *)

MaxRecords == 3

(* How many records beyond one full read the native queue of BatchSpec holds *)
MaxExtra == 2

(* The longest list of causes of an ErrorWrap::Multiple handed to as_error_vec *)
MaxCauses == 2

(* The paths a frontend may hand to Backend::new (unique entries). *)
PathSet == {"/w1", "/w2"}

(* Names and cookies the native records of the model carry. *)
NameSet == {None, Some("a")}
CookieSet == {0, 7}

----------------------------------------------------------------------------
(* Program constants *)

BACKEND_NAME == "inotify"

(* fn name() *)
name == BACKEND_NAME
BUFFER_SIZE == 4800
EVENT_SIZE == 24

(* The same on a target whose pointers are not 64 bits wide *)
BUFFER_SIZE_32 == 4000
EVENT_SIZE_32 == 20

(* Mutant: the capability list without TrackRelated *)
capabilitiesNoTrack ==
    <<"EmitOnAccess", "FollowSymlinks", "WatchFiles", "WatchFolders">>

(* fn capabilities() *)
capabilities ==
    <<"EmitOnAccess", "FollowSymlinks", "TrackRelated", "WatchFiles", "WatchFolders">>

(* inotify::EventMask flags the adapter tests *)
TranslationFlags ==
    {"ACCESS", "ATTRIB", "CLOSE_WRITE", "CLOSE_NOWRITE", "CREATE", "DELETE",
     "DELETE_SELF", "MODIFY", "MOVE_SELF", "MOVED_FROM", "MOVED_TO", "OPEN",
     "UNMOUNT", "ISDIR"}
ControlFlags == {"Q_OVERFLOW", "IGNORED"}
AllFlags == TranslationFlags \cup ControlFlags

----------------------------------------------------------------------------
(* Error model: backend/src/backend.rs *)

IoErrorKinds == {"NotFound", "PermissionDenied", "Other"}

(* Mutant: every I/O failure wrapped as Io, NotFound too *)
ErrorFromIoAlwaysIo(kind) == [variant |-> "Io", kind |-> kind]

(* impl From<io::Error> for Error *)
ErrorFromIo(kind) ==
    IF kind = "NotFound"
    THEN [variant |-> "NonExistent", paths |-> <<>>]
    ELSE [variant |-> "Io", kind |-> kind]

(* impl From<Error> for ErrorWrap *)
ErrorWrapFromError(err) == [variant |-> "General", error |-> err]

(* impl From<io::Error> for ErrorWrap *)
ErrorWrapFromIo(kind) == ErrorWrapFromError(ErrorFromIo(kind))

(* impl From<Capability> for Error *)
ErrorFromCapability(cap) == [variant |-> "NotSupported", capability |-> cap]

(* impl From<Capability> for ErrorWrap *)
ErrorWrapFromCapability(cap) == ErrorWrapFromError(ErrorFromCapability(cap))

(* enum ErrorWrap; General is built as in From<Error> *)
General(err) == [variant |-> "General", error |-> err]
All(err) == [variant |-> "All", error |-> err]
Single(err, paths) == [variant |-> "Single", error |-> err, paths |-> paths]
Multiple(ve) == [variant |-> "Multiple", list |-> ve]

(* Mutant: the causes of a Multiple collected last to first *)
RECURSIVE CausesReversed(_)
CausesReversed(ve) ==
    IF ve = <<>> THEN <<>> ELSE Append(CausesReversed(Tail(ve)), Head(ve)[1])

as_error_vec_reversed(w) ==
    IF w.variant = "Multiple" THEN CausesReversed(w.list) ELSE <<w.error>>

(* ve.iter().map(|(e, _)| e).collect() *)
RECURSIVE Causes(_)
Causes(ve) ==
    IF ve = <<>> THEN <<>> ELSE <<Head(ve)[1]>> \o Causes(Tail(ve))

(* ErrorWrap::as_error_vec *)
as_error_vec(w) ==
    IF w.variant = "Multiple" THEN Causes(w.list) ELSE <<w.error>>

----------------------------------------------------------------------------
(* Event equality and hashing: backend/src/event.rs, 312-329 *)

(* Mutant: equality that compares every field, attrs too *)
EventEqAllFields(a, b) == a = b

(* impl PartialEq for Event *)
EventEq(a, b) ==
    /\ a.kind = b.kind
    /\ a.paths = b.paths
    /\ a.relid = b.relid
    /\ a.source = b.source

(* impl Hash for Event: what is written to the Hasher, in order; two events
   hash identically when they write the same *)
EventHash(a) == <<a.kind, a.paths, a.relid, a.source>>

----------------------------------------------------------------------------
(* Buffer: the FIFO with close semantics the adapter feeds *)

BufferNew == [closed |-> FALSE, internal |-> <<>>]

BufferClosed(b) == b.closed

BufferClose(b) == [b EXCEPT !.closed = TRUE]

BufferPush(b, ev) ==
    IF b.closed THEN b ELSE [b EXCEPT !.internal = Append(@, ev)]

Pending == [type |-> "Pending"]
EndOfStream == [type |-> "EndOfStream"]
Item(ev) == [type |-> "Item", event |-> ev]
Failure(err) == [type |-> "Failure", error |-> err]
NotPolled == [type |-> "NotPolled"]

BufferPoll(b) ==
    IF b.internal # <<>>
    THEN [buffer |-> [b EXCEPT !.internal = Tail(@)], result |-> Item(Head(b.internal))]
    ELSE IF b.closed
         THEN [buffer |-> b, result |-> EndOfStream]
         ELSE [buffer |-> b, result |-> Pending]

----------------------------------------------------------------------------
(* Translation of one native record: backend-inotify/src/lib.rs, 139-184 *)

(* Mutant: the attribute test placed before the access test *)
EventKindOfAttribFirst(mask) ==
    IF "ATTRIB" \in mask THEN "Modify(Metadata(Any))"
    ELSE IF "ACCESS" \in mask THEN "Access(Any)"
    ELSE IF "CLOSE_WRITE" \in mask THEN "Access(Close(Write))"
    ELSE IF "CLOSE_NOWRITE" \in mask THEN "Access(Close(Read))"
    ELSE IF "CREATE" \in mask
         THEN (IF "ISDIR" \in mask THEN "Create(Folder)" ELSE "Create(File)")
    ELSE IF "DELETE" \in mask \/ "DELETE_SELF" \in mask
         THEN (IF "ISDIR" \in mask THEN "Remove(Folder)" ELSE "Remove(File)")
    ELSE IF "MODIFY" \in mask THEN "Modify(Data(Any))"
    ELSE IF "MOVE_SELF" \in mask THEN "Modify(Name(Any))"
    ELSE IF "MOVED_FROM" \in mask THEN "Modify(Name(From))"
    ELSE IF "MOVED_TO" \in mask THEN "Modify(Name(To))"
    ELSE IF "OPEN" \in mask THEN "Access(Open(Any))"
    ELSE IF "UNMOUNT" \in mask THEN "Remove(Other(unmount))"
    ELSE "Any"

(* The if / else-if chain over e.mask *)
EventKindOf(mask) ==
    IF "ACCESS" \in mask THEN "Access(Any)"
    ELSE IF "ATTRIB" \in mask THEN "Modify(Metadata(Any))"
    ELSE IF "CLOSE_WRITE" \in mask THEN "Access(Close(Write))"
    ELSE IF "CLOSE_NOWRITE" \in mask THEN "Access(Close(Read))"
    ELSE IF "CREATE" \in mask
         THEN (IF "ISDIR" \in mask THEN "Create(Folder)" ELSE "Create(File)")
    ELSE IF "DELETE" \in mask \/ "DELETE_SELF" \in mask
         THEN (IF "ISDIR" \in mask THEN "Remove(Folder)" ELSE "Remove(File)")
    ELSE IF "MODIFY" \in mask THEN "Modify(Data(Any))"
    ELSE IF "MOVE_SELF" \in mask THEN "Modify(Name(Any))"
    ELSE IF "MOVED_FROM" \in mask THEN "Modify(Name(From))"
    ELSE IF "MOVED_TO" \in mask THEN "Modify(Name(To))"
    ELSE IF "OPEN" \in mask THEN "Access(Open(Any))"
    ELSE IF "UNMOUNT" \in mask THEN "Remove(Other(unmount))"
    ELSE "Any"

(* e.name.map_or_else(|| vec![], |s| vec![s.into()]) *)
PathsOf(nm) == IF nm.some THEN <<nm.val>> ELSE <<>>

(* Mutant: the cookie wrapped without the test for zero *)
RelidOfAlwaysSome(cookie) == Some(cookie)

(* match e.cookie { 0 => None, c => Some(c as usize) }: a u32 widened to
   usize keeps its value on the 32- and 64-bit targets inotify exists on *)
RelidOf(cookie) == IF cookie = 0 THEN None ELSE Some(cookie)

(* The Event literal pushed for a record; attrs is the empty AnyMap *)
TranslateEvent(e) ==
    [kind   |-> EventKindOf(e.mask),
     paths  |-> PathsOf(e.name),
     relid  |-> RelidOf(e.cookie),
     attrs  |-> {},
     source |-> BACKEND_NAME]

----------------------------------------------------------------------------
(* Backend::process_events: backend-inotify/src/lib.rs, 118-188 *)

(* Mutant: the overflow closes the buffer and reports nothing *)
OnOverflowSilent(buf, seen) ==
    [buffer |-> BufferClose(buf), result |-> "Ok", seen |-> seen,
     done |-> TRUE]

(* Mutant: the overflow is reported and the buffer left open *)
OnOverflowNoClose(buf, seen) ==
    [buffer |-> buf, result |-> "UpstreamOverflow", seen |-> seen,
     done |-> TRUE]

(* The Q_OVERFLOW arm: close the buffer, return Err(UpstreamOverflow) *)
OnOverflow(buf, seen) ==
    [buffer |-> BufferClose(buf), result |-> "UpstreamOverflow", seen |-> seen,
     done |-> TRUE]

(* Mutant: the removed watch reported through the failure path *)
OnIgnoredFails(buf, seen) ==
    [buffer |-> BufferClose(buf), result |-> "UpstreamOverflow", seen |-> seen,
     done |-> TRUE]

(* Mutant: the removed watch breaks out of the loop, the buffer left open *)
OnIgnoredNoClose(buf, seen) ==
    [buffer |-> buf, result |-> "Ok", seen |-> seen,
     done |-> TRUE]

(* Mutant: the record of the removed watch is passed over and the loop goes
   on with the records of the other watches *)
OnIgnoredContinues(buf, seen) ==
    [buffer |-> buf, result |-> "Ok", seen |-> seen,
     done |-> FALSE]

(* The IGNORED arm: close the buffer, break, fall through to Ok(()) *)
OnIgnored(buf, seen) ==
    [buffer |-> BufferClose(buf), result |-> "Ok", seen |-> seen,
     done |-> TRUE]

(* Mutant: the translated record pushed twice *)
OnEventTwice(buf, e) ==
    BufferPush(BufferPush(buf, TranslateEvent(e)), TranslateEvent(e))

(* The push of the translated record *)
OnEvent(buf, e) == BufferPush(buf, TranslateEvent(e))

(* Mutant: the loop body with the IGNORED test ahead of the Q_OVERFLOW test *)
process_one_ignored_first(buf, e, seen) ==
    IF "IGNORED" \in e.mask THEN OnIgnored(buf, seen + 1)
    ELSE IF "Q_OVERFLOW" \in e.mask THEN OnOverflow(buf, seen + 1)
    ELSE [buffer |-> OnEvent(buf, e), result |-> "Ok", seen |-> seen + 1,
          done |-> FALSE]

(* The body of the loop for one record; seen counts the records visited,
   done tells that the body left the loop (return or break) *)
process_one(buf, e, seen) ==
    IF "Q_OVERFLOW" \in e.mask THEN OnOverflow(buf, seen + 1)
    ELSE IF "IGNORED" \in e.mask THEN OnIgnored(buf, seen + 1)
    ELSE [buffer |-> OnEvent(buf, e), result |-> "Ok", seen |-> seen + 1,
          done |-> FALSE]

(* for event in events { .. } over the records lo..hi of a batch: the loop
   over the first half of them and, unless that left the loop, the loop over
   the second half, which starts from the outcome of the first *)
RECURSIVE process_loop(_, _, _, _, _)
process_loop(buf, events, lo, hi, seen) ==
    IF lo > hi
    THEN [buffer |-> buf, result |-> "Ok", seen |-> seen, done |-> FALSE]
    ELSE IF lo = hi
    THEN process_one(buf, events[lo], seen)
    ELSE CHOOSE out \in
             {IF first.done THEN first
              ELSE process_loop(first.buffer, events, (lo + hi) \div 2 + 1, hi,
                                first.seen)
              : first \in {process_loop(buf, events, lo, (lo + hi) \div 2, seen)}}
           : TRUE

process_events(buf, events) == process_loop(buf, events, 1, Len(events), 0)

----------------------------------------------------------------------------
(* Stream::poll for Backend: backend-inotify/src/lib.rs, 104-114 *)

(* How many records one read of BUFFER_SIZE bytes holds *)
BatchMax == BUFFER_SIZE \div EVENT_SIZE

(* Mutant: one read takes the whole native queue *)
read_events_all(queue) == queue

(* self.inotify.read_events(&mut buf): the records at the head of the native
   queue that fit the read buffer *)
read_events(queue) ==
    SubSeq(queue, 1, IF Len(queue) < BatchMax THEN Len(queue) ELSE BatchMax)

(* Mutant: poll reads the native queue whether the buffer is closed or not *)
SkipsReadNever(buf) == FALSE

(* if self.buffer.closed() { return self.buffer.poll(); } *)
SkipsRead(buf) == BufferClosed(buf)

(* Mutant: a closed buffer reported as ended without being polled *)
PollClosedEnds(buf) == [buffer |-> buf, result |-> EndOfStream]

(* Mutant: a closed buffer with nothing left reported as not ready *)
PollClosedSuspends(buf) ==
    IF buf.internal = <<>> THEN [buffer |-> buf, result |-> Pending]
    ELSE BufferPoll(buf)

(* return self.buffer.poll(); on a closed buffer *)
PollClosed(buf) == BufferPoll(buf)

(* Mutant: a poll that closes the buffer when the native read fails *)
poll_read_failure_closes(buf, queue, readOk) ==
    IF SkipsRead(buf)
    THEN LET p == PollClosed(buf)
         IN [buffer |-> p.buffer, result |-> p.result, nread |-> 0, seen |-> 0,
             mid |-> buf]
    ELSE IF ~readOk
    THEN [buffer |-> BufferClose(buf), result |-> Failure("Io"), nread |-> 0,
          seen |-> 0, mid |-> BufferClose(buf)]
    ELSE LET from_kernel == read_events(queue)
             pe == process_events(buf, from_kernel)
         IN IF pe.result # "Ok"
            THEN [buffer |-> pe.buffer, result |-> Failure(pe.result),
                  nread |-> Len(from_kernel), seen |-> pe.seen, mid |-> pe.buffer]
            ELSE LET p == BufferPoll(pe.buffer)
                 IN [buffer |-> p.buffer, result |-> p.result,
                     nread |-> Len(from_kernel), seen |-> pe.seen,
                     mid |-> pe.buffer]

(* Mutant: a poll that pushes what it read and reports Pending, leaving the
   buffer for the next pull *)
poll_without_drain(buf, queue, readOk) ==
    IF SkipsRead(buf)
    THEN LET p == PollClosed(buf)
         IN [buffer |-> p.buffer, result |-> p.result, nread |-> 0, seen |-> 0,
             mid |-> buf]
    ELSE IF ~readOk
    THEN [buffer |-> buf, result |-> Failure("Io"), nread |-> 0, seen |-> 0,
          mid |-> buf]
    ELSE LET from_kernel == read_events(queue)
             pe == process_events(buf, from_kernel)
         IN IF pe.result # "Ok"
            THEN [buffer |-> pe.buffer, result |-> Failure(pe.result),
                  nread |-> Len(from_kernel), seen |-> pe.seen, mid |-> pe.buffer]
            ELSE [buffer |-> pe.buffer, result |-> Pending,
                  nread |-> Len(from_kernel), seen |-> pe.seen,
                  mid |-> pe.buffer]

(* The whole of poll as a function of the buffer, the native queue and
   whether the native read succeeds.  nread: records taken from the queue;
   seen: records the loop visited; mid: the buffer before its final poll. *)
poll(buf, queue, readOk) ==
    IF SkipsRead(buf)
    THEN LET p == PollClosed(buf)
         IN [buffer |-> p.buffer, result |-> p.result, nread |-> 0, seen |-> 0,
             mid |-> buf]
    ELSE IF ~readOk
    THEN [buffer |-> buf, result |-> Failure("Io"), nread |-> 0, seen |-> 0,
          mid |-> buf]
    ELSE LET from_kernel == read_events(queue)
             pe == process_events(buf, from_kernel)
         IN IF pe.result # "Ok"
            THEN [buffer |-> pe.buffer, result |-> Failure(pe.result),
                  nread |-> Len(from_kernel), seen |-> pe.seen, mid |-> pe.buffer]
            ELSE LET p == BufferPoll(pe.buffer)
                 IN [buffer |-> p.buffer, result |-> p.result,
                     nread |-> Len(from_kernel), seen |-> pe.seen,
                     mid |-> pe.buffer]

----------------------------------------------------------------------------
(* Backend::new: backend-inotify/src/lib.rs, 56-69 *)

(* Inotify::init() *)
InotifyInit == [open |-> TRUE, watches |-> <<>>]

(* WatchMask::ALL_EVENTS *)
ALL_EVENTS == "ALL_EVENTS"

(* inotify.add_watch(&path, mask) *)
AddWatch(ino, path, mask) ==
    [ino EXCEPT !.watches = Append(@, [path |-> path, mask |-> mask])]

(* The Inotify value dropped on an early return: the descriptor is closed
   and the kernel discards its watches *)
Released == [open |-> FALSE, watches |-> <<>>]

NoResult == [type |-> "NoResult"]
OkBackend == [type |-> "Ok"]
Err(wrap) == [type |-> "Err", error |-> wrap]

(* Mutant: a path whose registration fails is skipped *)
RECURSIVE add_watches_skip(_, _, _, _)
add_watches_skip(ino, paths, bad, kind) ==
    IF paths = <<>>
    THEN [ok |-> TRUE, inotify |-> ino, err |-> NoResult]
    ELSE IF Head(paths) \in bad
         THEN add_watches_skip(ino, Tail(paths), bad, kind)
         ELSE add_watches_skip(AddWatch(ino, Head(paths), ALL_EVENTS),
                               Tail(paths), bad, kind)

(* Mutant: a failed registration is remembered and the later paths are
   registered all the same *)
RECURSIVE add_watches_collect(_, _, _, _)
add_watches_collect(ino, paths, bad, kind) ==
    IF paths = <<>>
    THEN [ok |-> TRUE, inotify |-> ino, err |-> NoResult]
    ELSE IF Head(paths) \in bad
         THEN [ok |-> FALSE,
               inotify |-> add_watches_collect(ino, Tail(paths), bad, kind).inotify,
               err |-> ErrorWrapFromIo(kind)]
         ELSE add_watches_collect(AddWatch(ino, Head(paths), ALL_EVENTS),
                                  Tail(paths), bad, kind)

(* for path in paths { inotify.add_watch(..)?; }: bad holds the paths whose
   registration fails, kind the io::ErrorKind of the failure *)
RECURSIVE add_watches(_, _, _, _)
add_watches(ino, paths, bad, kind) ==
    IF paths = <<>>
    THEN [ok |-> TRUE, inotify |-> ino, err |-> NoResult]
    ELSE IF Head(paths) \in bad
         THEN [ok |-> FALSE, inotify |-> ino, err |-> ErrorWrapFromIo(kind)]
         ELSE add_watches(AddWatch(ino, Head(paths), ALL_EVENTS),
                          Tail(paths), bad, kind)

new(paths, initOk, bad, kind) ==
    IF ~initOk
    THEN [result |-> Err(ErrorWrapFromIo(kind)), phase |-> "Failed",
          session |-> Released, registered |-> <<>>]
    ELSE LET w == add_watches(InotifyInit, paths, bad, kind)
         IN IF w.ok
            THEN [result |-> OkBackend, phase |-> "Active",
                  session |-> w.inotify, registered |-> w.inotify.watches]
            ELSE [result |-> Err(w.err), phase |-> "Failed",
                  session |-> Released, registered |-> w.inotify.watches]

----------------------------------------------------------------------------
(* The state machine *)

Range(s) == {s[i] : i \in 1..Len(s)}

(* No call of new yet, no value-level function applied yet *)
NoInput == [paths |-> <<>>, initOk |-> TRUE, bad |-> {}]
NotApplied == [type |-> "NotApplied"]

(* Vec<PathBuf> with unique entries *)
PathSeqs ==
    {<<>>} \cup {<<p>> : p \in PathSet}
           \cup {s \in {<<p, q>> : p \in PathSet, q \in PathSet} : s[1] # s[2]}

(* The native records the kernel emits for a session with n watches *)
NativeRecords(n) ==
    {[wd |-> -1, mask |-> {"Q_OVERFLOW"}, cookie |-> 0, name |-> None]}
    \cup UNION {
        {[wd |-> w, mask |-> {"CREATE"}, cookie |-> 0, name |-> Some("a")],
         [wd |-> w, mask |-> {"MOVED_FROM"}, cookie |-> 7, name |-> Some("a")],
         [wd |-> w, mask |-> {"IGNORED"}, cookie |-> 0, name |-> None]}
        : w \in 1..n}

Init ==
    /\ phase = "Constructing"
    /\ newResult = NoResult
    /\ session = Released
    /\ registered = <<>>
    /\ setupFailed = FALSE
    /\ newInput = NoInput
    /\ kernel = <<>>
    /\ buffer = BufferNew
    /\ last = NotPolled
    /\ obs = <<>>
    /\ readSoFar = <<>>
    /\ nProcessed = 0
    /\ closedAt = -1
    /\ closedWith = <<>>
    /\ arg = NotApplied
    /\ ret = NotApplied

(* Backend::new(paths) *)
New(paths, initOk, bad, kind) ==
    /\ phase = "Constructing"
    /\ LET r == new(paths, initOk, bad, kind)
       IN /\ newResult' = r.result
          /\ phase' = r.phase
          /\ session' = r.session
          /\ registered' = r.registered
    /\ setupFailed' = (~initOk \/ \E i \in 1..Len(paths) : paths[i] \in bad)
    /\ newInput' = [paths |-> paths, initOk |-> initOk, bad |-> bad]
    /\ buffer' = BufferNew
    /\ UNCHANGED <<kernel, last, obs, readSoFar, nProcessed, closedAt, closedWith,
                   arg, ret>>

Construct ==
    \E paths \in PathSeqs, initOk \in BOOLEAN, kind \in IoErrorKinds :
        \E bad \in SUBSET Range(paths) : New(paths, initOk, bad, kind)

(* The kernel appends a record to the session's queue *)
KernelEmit ==
    /\ phase = "Active"
    /\ session.open
    /\ Len(readSoFar) + Len(kernel) < MaxRecords
    /\ \E rec \in NativeRecords(Len(session.watches)) :
          kernel' = Append(kernel, rec)
    /\ UNCHANGED <<phase, newResult, session, registered, setupFailed, newInput,
                   buffer, last, obs, readSoFar, nProcessed, closedAt, closedWith,
                   arg, ret>>

Ended == \E i \in 1..Len(obs) : obs[i] = EndOfStream

(* What the observation history keeps of a poll result *)
Observable(result) ==
    \/ result.type = "Item"
    \/ result = Failure("UpstreamOverflow")
    \/ result = EndOfStream /\ ~Ended

(* One pull of the consumer *)
Poll(readOk) ==
    /\ phase = "Active"
    /\ LET r == poll(buffer, kernel, readOk)
       IN /\ buffer' = r.buffer
          /\ kernel' = SubSeq(kernel, r.nread + 1, Len(kernel))
          /\ last' = r.result
          /\ obs' = IF Observable(r.result) THEN Append(obs, r.result) ELSE obs
          /\ readSoFar' = readSoFar \o SubSeq(kernel, 1, r.nread)
          /\ nProcessed' = nProcessed + r.seen
          /\ IF ~buffer.closed /\ r.mid.closed
                THEN closedAt' = Len(obs) /\ closedWith' = r.mid.internal
                ELSE UNCHANGED <<closedAt, closedWith>>
    /\ UNCHANGED <<phase, newResult, session, registered, setupFailed, newInput,
                   arg, ret>>

Pull == \E readOk \in BOOLEAN : Poll(readOk)

Next == Construct \/ KernelEmit \/ Pull

Spec == Init /\ [][Next]_vars

(* A consumer that keeps pulling *)
FairSpec == Spec /\ WF_vars(Pull)

(* The translation, on its own: an adapter over one path whose native queue
   holds one record with any combination of flags (an overflow or ignored
   record carries neither name nor cookie), or the two records of a rename *)
AnyRecords ==
    {r \in [wd : {1}, mask : SUBSET AllFlags, cookie : CookieSet, name : NameSet] :
        r.mask \cap ControlFlags # {} => (r.cookie = 0 /\ r.name = None)}

RenamePairs ==
    {<<[wd |-> 1, mask |-> {"MOVED_FROM"}, cookie |-> c, name |-> Some("a")],
       [wd |-> 1, mask |-> {"MOVED_TO"}, cookie |-> d, name |-> Some("b")]>>
     : c \in CookieSet, d \in CookieSet}

InitT ==
    /\ phase = "Active"
    /\ newResult = OkBackend
    /\ session = AddWatch(InotifyInit, "/w1", ALL_EVENTS)
    /\ registered = session.watches
    /\ setupFailed = FALSE
    /\ newInput = [paths |-> <<"/w1">>, initOk |-> TRUE, bad |-> {}]
    /\ kernel \in {<<r>> : r \in AnyRecords} \cup RenamePairs
    /\ buffer = BufferNew
    /\ last = NotPolled
    /\ obs = <<>>
    /\ readSoFar = <<>>
    /\ nProcessed = 0
    /\ closedAt = -1
    /\ closedWith = <<>>
    /\ arg = NotApplied
    /\ ret = NotApplied

TranslateSpec == InitT /\ [][Pull]_vars

----------------------------------------------------------------------------
(* Vocabulary of the properties *)

IsItem(r) == r.type = "Item"

ItemsOf(s) ==
    LET items == SelectSeq(s, IsItem)
    IN [i \in 1..Len(items) |-> items[i].event]

(* The events yielded to the consumer so far *)
Yielded == ItemsOf(obs)

(* What the consumer observed from the pull that closed the buffer onward *)
ObsSinceClose == SubSeq(obs, closedAt + 1, Len(obs))

OverflowFailure == Failure("UpstreamOverflow")

OverflowCount == Cardinality({i \in 1..Len(obs) : obs[i] = OverflowFailure})

(* The records the loop of process_events has visited *)
Visited == SubSeq(readSoFar, 1, IF nProcessed < Len(readSoFar)
                                   THEN nProcessed ELSE Len(readSoFar))

OverflowProcessed == \E i \in 1..Len(Visited) : "Q_OVERFLOW" \in Visited[i].mask

IgnoredProcessed == \E i \in 1..Len(Visited) : "IGNORED" \in Visited[i].mask

(* The records read so far that precede the first overflow / ignored record *)
ControlIdx == {i \in 1..Len(readSoFar) : readSoFar[i].mask \cap ControlFlags # {}}

PreControl ==
    IF ControlIdx = {} THEN readSoFar
    ELSE SubSeq(readSoFar, 1,
                (CHOOSE i \in ControlIdx : \A j \in ControlIdx : i <= j) - 1)

TranslateAll(recs) == [i \in 1..Len(recs) |-> TranslateEvent(recs[i])]

----------------------------------------------------------------------------
(* C1 as stated: once the UpstreamOverflow failure has been observed, the
   consumer observes no event: events, then the failure, then end-of-stream. *)
C1_NoEventAfterFailure ==
    \A i \in 1..Len(obs) : \A j \in 1..Len(obs) :
        (obs[i] = OverflowFailure /\ i < j) => obs[j].type # "Item"

(* C1, the safety part of the amended claim *)
C1_Safe ==
    OverflowProcessed =>
        /\ OverflowCount = 1
        /\ closedAt >= 0 /\ Len(obs) > closedAt
        /\ obs[closedAt + 1] = OverflowFailure
        /\ ItemsOf(SubSeq(obs, 1, closedAt)) \o closedWith = TranslateAll(PreControl)
        /\ Yielded \o buffer.internal = TranslateAll(PreControl)
        /\ Ended => (obs[Len(obs)] = EndOfStream /\ buffer.internal = <<>>)

(* C1 amended: when a record with the queue-overflow flag is processed after
   E1..En were translated and buffered, the pull that processes it returns the
   one UpstreamOverflow failure; the consumer observes E1..En in order, each
   exactly once (those not yet yielded follow the failure), and no other
   event, and then end-of-stream. *)
C1_OverflowOrdering == [](C1_Safe) /\ (OverflowProcessed ~> Ended)

(* C1 witness: an event was yielded before the overflow was processed, the
   failure was observed, an event buffered before it was yielded after it,
   and the stream has ended. *)
C1_Witness ==
    /\ OverflowProcessed /\ Ended
    /\ closedAt >= 1 /\ closedWith # <<>>
    /\ ItemsOf(ObsSinceClose) = closedWith

(* C2: at most one pull returns UpstreamOverflow, and a pull returns it if and
   only if its cycle visited a record carrying the queue-overflow flag while
   the buffer was open. *)
C2_OverflowOnce ==
    [][/\ OverflowCount' <= 1
       /\ (obs' = Append(obs, OverflowFailure) /\ last' = OverflowFailure)
            <=> (/\ ~buffer.closed
                 /\ \E i \in (Len(Visited) + 1)..Len(Visited') :
                        "Q_OVERFLOW" \in Visited'[i].mask)]_vars

(* C2 witness: the failure was reported once, the stream ended, and a second
   overflow record sits in the native queue. *)
C2_Witness ==
    /\ OverflowCount = 1 /\ Ended
    /\ \E i \in 1..Len(kernel) : "Q_OVERFLOW" \in kernel[i].mask

(* C3: once an overflow record has closed the buffer, a consumer that keeps
   pulling is yielded exactly the events the buffer held at that moment, in
   FIFO order and each once, and then sees end-of-stream. *)
C3_DrainAfterOverflow ==
    /\ [](OverflowProcessed =>
            ItemsOf(ObsSinceClose) \o buffer.internal = closedWith)
    /\ (OverflowProcessed ~>
            (/\ Ended /\ obs[Len(obs)] = EndOfStream
             /\ ItemsOf(ObsSinceClose) = closedWith))

(* C3 witness: the buffer held two events when the overflow closed it, and
   the stream has ended. *)
C3_Witness == OverflowProcessed /\ Len(closedWith) >= 2 /\ Ended

IgnoredClosed == IgnoredProcessed /\ ~OverflowProcessed

C4_Safe ==
    IgnoredClosed =>
        /\ closedAt >= 0 /\ buffer.closed
        /\ last.type \in {"Item", "EndOfStream"}
        /\ \A i \in (closedAt + 1)..Len(obs) : obs[i].type # "Failure"
        /\ Yielded \o buffer.internal = TranslateAll(PreControl)
        /\ Ended => (obs[Len(obs)] = EndOfStream /\ buffer.internal = <<>>)

(* C4: once a record with the ignored flag has been processed, the consumer
   observes the events buffered up to that record, in order, then
   end-of-stream, and no pull from that cycle onward returns a failure. *)
C4_WatchRemoved == [](C4_Safe) /\ (IgnoredClosed ~> Ended)

(* C4 witness: an ignored record closed a buffer that held events, and the
   stream has ended after they were yielded. *)
C4_Witness == IgnoredClosed /\ closedWith # <<>> /\ Ended /\ Len(Yielded) >= 2

(* C5: once a pull has returned end-of-stream, every later pull returns
   end-of-stream and changes nothing. *)
C5_IdempotentTermination ==
    [][Ended => (last' = EndOfStream /\ obs' = obs /\ buffer' = buffer)]_vars

(* C5 witness: the stream has ended while native records are still queued. *)
C5_Witness == Ended /\ last = EndOfStream /\ kernel # <<>>

(* C6: the events yielded so far followed by the buffer's contents are the
   translation, in order, of the records read so far that precede the first
   overflow / ignored record. *)
C6_OrderPreserved == Yielded \o buffer.internal = TranslateAll(PreControl)

(* C6 witness: events were yielded, another is buffered, and a control record
   has been read. *)
C6_Witness == Len(Yielded) >= 1 /\ buffer.internal # <<>> /\ ControlIdx # {}

(* The precedence table of the translation: the flags of each step, the kind
   for a record marked is-directory and the kind otherwise *)
PrecedenceTable ==
    << <<{"ACCESS"}, "Access(Any)", "Access(Any)">>,
       <<{"ATTRIB"}, "Modify(Metadata(Any))", "Modify(Metadata(Any))">>,
       <<{"CLOSE_WRITE"}, "Access(Close(Write))", "Access(Close(Write))">>,
       <<{"CLOSE_NOWRITE"}, "Access(Close(Read))", "Access(Close(Read))">>,
       <<{"CREATE"}, "Create(Folder)", "Create(File)">>,
       <<{"DELETE", "DELETE_SELF"}, "Remove(Folder)", "Remove(File)">>,
       <<{"MODIFY"}, "Modify(Data(Any))", "Modify(Data(Any))">>,
       <<{"MOVE_SELF"}, "Modify(Name(Any))", "Modify(Name(Any))">>,
       <<{"MOVED_FROM"}, "Modify(Name(From))", "Modify(Name(From))">>,
       <<{"MOVED_TO"}, "Modify(Name(To))", "Modify(Name(To))">>,
       <<{"OPEN"}, "Access(Open(Any))", "Access(Open(Any))">>,
       <<{"UNMOUNT"}, "Remove(Other(unmount))", "Remove(Other(unmount))">> >>

TableKind(mask) ==
    LET hits == {k \in 1..Len(PrecedenceTable) : PrecedenceTable[k][1] \cap mask # {}}
    IN IF hits = {} THEN "Any"
       ELSE LET k == CHOOSE h \in hits : \A g \in hits : h <= g
            IN IF "ISDIR" \in mask THEN PrecedenceTable[k][2]
                                   ELSE PrecedenceTable[k][3]

(* The events translated so far, and the records they pair with *)
Translated == Yielded \o buffer.internal

Paired ==
    1..(IF Len(Translated) < Len(PreControl) THEN Len(Translated) ELSE Len(PreControl))

(* C7: the kind of every event translated from a record without the overflow
   or ignored flag is the first match of the 13-step precedence table. *)
C7_TranslationPrecedence ==
    /\ Len(Translated) = Len(PreControl)
    /\ \A i \in Paired : Translated[i].kind = TableKind(PreControl[i].mask)

(* C7 witness: an event was yielded for a record carrying the access, attrib
   and open flags together. *)
C7_Witness ==
    /\ last.type = "Item"
    /\ Len(readSoFar) = 1
    /\ {"ACCESS", "ATTRIB", "OPEN"} \subseteq readSoFar[1].mask

(* C8: every translated record gives one event whose paths is the record's
   name or empty, whose relid is None exactly for cookie 0 and the cookie
   otherwise (so equal non-zero cookies give equal relids), whose attrs is
   empty and whose source is name(). *)
C8_FieldMapping ==
    /\ Len(Translated) = Len(PreControl)
    /\ \A i \in Paired :
          /\ PreControl[i].name.some => Translated[i].paths = <<PreControl[i].name.val>>
          /\ ~PreControl[i].name.some => Translated[i].paths = <<>>
          /\ Translated[i].relid = None <=> PreControl[i].cookie = 0
          /\ PreControl[i].cookie # 0 => Translated[i].relid = Some(PreControl[i].cookie)
          /\ Translated[i].attrs = {}
          /\ Translated[i].source = name /\ name = "inotify"
    /\ \A i \in Paired : \A j \in Paired :
          (PreControl[i].cookie = PreControl[j].cookie /\ PreControl[i].cookie # 0)
              => Translated[i].relid = Translated[j].relid

(* C8 witness: the two halves of a rename were yielded with the same relid. *)
C8_Witness ==
    /\ Len(Yielded) = 2
    /\ Yielded[1].kind = "Modify(Name(From))" /\ Yielded[2].kind = "Modify(Name(To))"
    /\ Yielded[1].relid = Some(7) /\ Yielded[2].relid = Some(7)
    /\ Yielded[1].paths = <<"a">> /\ Yielded[2].paths = <<"b">>

(* C9: if opening the session or a registration fails, new returns an
   ErrorWrap and no adapter: nothing is ever Active or pulled, and the
   session with the watches registered so far is released. *)
C9_FailsClosed ==
    /\ setupFailed =>
          /\ newResult.type = "Err" /\ phase = "Failed"
          /\ ~session.open /\ session.watches = <<>>
          /\ last = NotPolled /\ kernel = <<>> /\ obs = <<>>
    /\ phase = "Active" => (~setupFailed /\ newResult = OkBackend)

(* C9 witness: a registration failed after another path had been registered. *)
C9_Witness == setupFailed /\ registered # <<>> /\ phase = "Failed"

(* C10 as stated: a registration failure after some paths were registered is
   returned as ErrorWrap::Single or ErrorWrap::Multiple. *)
C10_PathAttribution ==
    (phase = "Failed" /\ registered # <<>>)
        => newResult.error.variant \in {"Single", "Multiple"}

----------------------------------------------------------------------------
(* The lifecycle of an adapter instance, read off the program state *)
Stage ==
    IF phase = "Constructing" THEN "Constructing"
    ELSE IF phase = "Failed" THEN "Failed"
    ELSE IF ~buffer.closed THEN "Active"
    ELSE IF buffer.internal # <<>> THEN "Draining"
    ELSE "Terminated"

StageRank ==
    CASE Stage = "Constructing" -> 0
      [] Stage = "Failed" -> 1
      [] Stage = "Active" -> 1
      [] Stage = "Draining" -> 2
      [] Stage = "Terminated" -> 3

(* C11: an adapter moves only forward through Constructing, Active, Draining,
   Terminated; the buffer is closed exactly once an overflow or ignored record
   has been processed and is never reopened; the adapter is Draining exactly
   while events the buffer held at closure are still to be yielded, and
   Terminated (the only stage that reports end-of-stream) only with the
   closed buffer empty and all of them yielded. *)
C11_Lifecycle ==
    [][/\ StageRank' >= StageRank
       /\ buffer.closed => buffer'.closed
       /\ buffer'.closed <=> (OverflowProcessed' \/ IgnoredProcessed')
       /\ buffer'.closed <=> closedAt' >= 0
       /\ Stage' = "Draining" <=>
             (closedAt' >= 0 /\ Len(ItemsOf(ObsSinceClose')) < Len(closedWith'))
       /\ Stage' = "Terminated" =>
             (buffer'.internal = <<>> /\ ItemsOf(ObsSinceClose') = closedWith')
       /\ Ended' => Stage' = "Terminated"]_vars

(* C11 witness: an adapter that was Draining with two events is Terminated. *)
C11_Witness == Stage = "Terminated" /\ Len(closedWith) >= 2 /\ Ended

(* C12: every event the adapter has emitted with relid = Some(_) comes from
   an adapter whose capabilities() holds TrackRelated, every Access event
   from one that holds EmitOnAccess, and capabilities() is exactly
   EmitOnAccess, FollowSymlinks, TrackRelated, WatchFiles, WatchFolders. *)
C12_CapabilityConsistency ==
    /\ \A i \in 1..Len(Translated) :
          /\ Translated[i].source = name
          /\ Translated[i].relid.some => "TrackRelated" \in Range(capabilities)
          /\ Translated[i].kind \in {"Access(Any)", "Access(Close(Write))",
                                      "Access(Close(Read))", "Access(Open(Any))"}
                => "EmitOnAccess" \in Range(capabilities)
    /\ Range(capabilities) = {"EmitOnAccess", "FollowSymlinks", "TrackRelated",
                              "WatchFiles", "WatchFolders"}
    /\ Len(capabilities) = 5

(* C12 witness: an Access event with relid Some(7) was yielded. *)
C12_Witness ==
    /\ last.type = "Item"
    /\ last.event.relid = Some(7) /\ last.event.kind = "Access(Any)"

----------------------------------------------------------------------------
(* The value-level functions, applied to arguments drawn from bounded sets *)

ErrorSamples ==
    {ErrorFromIo(k) : k \in IoErrorKinds}
    \cup {ErrorFromCapability("TrackRelated"),
          [variant |-> "NotImplemented"],
          [variant |-> "Generic", msg |-> "m"]}

CauseTuples == {<<e, ps>> : e \in ErrorSamples, ps \in PathSeqs}

RECURSIVE SeqsUpTo(_, _)
SeqsUpTo(S, n) ==
    IF n = 0 THEN {<<>>}
    ELSE LET shorter == SeqsUpTo(S, n - 1)
         IN shorter \cup {Append(q, x) : q \in shorter, x \in S}

ErrorWrapSamples ==
    {General(e) : e \in ErrorSamples}
    \cup {All(e) : e \in ErrorSamples}
    \cup {Single(t[1], t[2]) : t \in CauseTuples}
    \cup {Multiple(ve) : ve \in SeqsUpTo(CauseTuples, MaxCauses)}

EventSamples ==
    [kind : {"Any", "Create(File)"}, paths : {<<>>, <<"a">>},
     relid : {None, Some(7)}, attrs : {{}, {"tag"}}, source : {"", BACKEND_NAME}]

CallAsErrorVec(w) == [fn |-> "as_error_vec", wrap |-> w]
CallFromIo(k) == [fn |-> "from_io", kind |-> k]
CallFromCapability(c) == [fn |-> "from_capability", cap |-> c]
CallEq(a, b) == [fn |-> "eq", a |-> a, b |-> b]
Applied(v) == [type |-> "Applied", val |-> v]

InitV ==
    /\ phase = "Constructing"
    /\ newResult = NoResult
    /\ session = Released
    /\ registered = <<>>
    /\ setupFailed = FALSE
    /\ newInput = NoInput
    /\ kernel = <<>>
    /\ buffer = BufferNew
    /\ last = NotPolled
    /\ obs = <<>>
    /\ readSoFar = <<>>
    /\ nProcessed = 0
    /\ closedAt = -1
    /\ closedWith = <<>>
    /\ arg \in {CallAsErrorVec(w) : w \in ErrorWrapSamples}
              \cup {CallFromIo(k) : k \in IoErrorKinds}
              \cup {CallFromCapability(c) : c \in Range(capabilities)}
              \cup {CallEq(a, b) : a \in EventSamples, b \in EventSamples}
    /\ ret = NotApplied

Frame ==
    UNCHANGED <<phase, newResult, session, registered, setupFailed, newInput,
                kernel, buffer, last, obs, readSoFar, nProcessed, closedAt,
                closedWith, arg>>

(* wrap.as_error_vec() *)
AsErrorVec ==
    /\ arg.fn = "as_error_vec" /\ ret = NotApplied
    /\ ret' = Applied(as_error_vec(arg.wrap))
    /\ Frame

(* Error::from(io), ErrorWrap::from(io), ErrorWrap::from(Error::from(io)) *)
ConvertIo ==
    /\ arg.fn = "from_io" /\ ret = NotApplied
    /\ ret' = Applied([error |-> ErrorFromIo(arg.kind),
                       wrap |-> ErrorWrapFromIo(arg.kind),
                       rewrap |-> ErrorWrapFromError(ErrorFromIo(arg.kind))])
    /\ Frame

(* Error::from(cap), ErrorWrap::from(cap), ErrorWrap::from(Error::from(cap)) *)
ConvertCapability ==
    /\ arg.fn = "from_capability" /\ ret = NotApplied
    /\ ret' = Applied([error |-> ErrorFromCapability(arg.cap),
                       wrap |-> ErrorWrapFromCapability(arg.cap),
                       rewrap |-> ErrorWrapFromError(ErrorFromCapability(arg.cap))])
    /\ Frame

(* a == b, hash(a), hash(b) *)
CompareEvents ==
    /\ arg.fn = "eq" /\ ret = NotApplied
    /\ ret' = Applied([eq |-> EventEq(arg.a, arg.b),
                       hash_a |-> EventHash(arg.a),
                       hash_b |-> EventHash(arg.b)])
    /\ Frame

NextV == AsErrorVec \/ ConvertIo \/ ConvertCapability \/ CompareEvents

ValueSpec == InitV /\ [][NextV]_vars

Returned(fn) == arg.fn = fn /\ ret # NotApplied

(* C13: as_error_vec of Multiple([(c1,p1),...,(cN,pN)]) is [c1,...,cN], in
   that order and of length N (N = 0 included); of General(c), All(c) and
   Single(c, p) it is [c]. *)
C13_AsErrorVec ==
    Returned("as_error_vec") =>
        LET w == arg.wrap
            v == ret.val
        IN /\ w.variant = "Multiple" =>
                 /\ Len(v) = Len(w.list)
                 /\ \A i \in 1..Len(w.list) : v[i] = w.list[i][1]
           /\ w.variant \in {"General", "All", "Single"} =>
                 (Len(v) = 1 /\ v[1] = w.error)

(* C13 witness: a Multiple of two different causes, the first with no path
   and both naming the same path otherwise, was flattened. *)
C13_Witness ==
    /\ Returned("as_error_vec") /\ arg.wrap.variant = "Multiple"
    /\ Len(arg.wrap.list) = 2 /\ Len(ret.val) = 2
    /\ arg.wrap.list[1][1] # arg.wrap.list[2][1]
    /\ arg.wrap.list[1][2] = <<>>

(* C14: an I/O failure converts to NonExistent with no paths when its kind is
   NotFound and to Io of that failure otherwise, a Capability converts to
   NotSupported of it, and either converts on to General of that cause. *)
C14_Conversions ==
    /\ Returned("from_io") =>
          /\ arg.kind = "NotFound" =>
                ret.val.error = [variant |-> "NonExistent", paths |-> <<>>]
          /\ arg.kind # "NotFound" =>
                ret.val.error = [variant |-> "Io", kind |-> arg.kind]
          /\ ret.val.wrap = General(ret.val.error)
          /\ ret.val.rewrap = General(ret.val.error)
    /\ Returned("from_capability") =>
          /\ ret.val.error = [variant |-> "NotSupported", capability |-> arg.cap]
          /\ ret.val.wrap = General(ret.val.error)
          /\ ret.val.rewrap = General(ret.val.error)

(* C14 witness: a NotFound failure was converted. *)
C14_Witness ==
    /\ Returned("from_io") /\ arg.kind = "NotFound"
    /\ ret.val.wrap.error.variant = "NonExistent"

(* C15: a == b exactly when kind, paths, relid and source agree, whatever the
   attrs, and equal events hash identically. *)
C15_EqualityIgnoresAttrs ==
    Returned("eq") =>
        LET a == arg.a
            b == arg.b
        IN /\ ret.val.eq <=> ([a EXCEPT !.attrs = {}] = [b EXCEPT !.attrs = {}])
           /\ ret.val.eq => ret.val.hash_a = ret.val.hash_b

(* C15 witness: two events that differ only in attrs compared equal. *)
C15_Witness ==
    /\ Returned("eq") /\ arg.a.attrs # arg.b.attrs
    /\ ret.val.eq /\ ret.val.hash_a = ret.val.hash_b

----------------------------------------------------------------------------
(* C16: a visited record carrying Q_OVERFLOW or IGNORED adds no event,
   whatever else its mask holds: the events translated are those of the
   records before it, and the buffer is closed.  With Q_OVERFLOW in the mask,
   with or without IGNORED, the pull that visited it reported the overflow
   failure; with IGNORED alone no failure is ever reported. *)
C16_ControlShortCircuit ==
    \A i \in 1..Len(Visited) :
        Visited[i].mask \cap ControlFlags # {} =>
            /\ Len(Translated) = i - 1
            /\ Translated = TranslateAll(SubSeq(Visited, 1, i - 1))
            /\ buffer.closed
            /\ closedAt >= 0
            /\ "Q_OVERFLOW" \in Visited[i].mask =>
                  (OverflowCount = 1 /\ obs[closedAt + 1] = OverflowFailure)
            /\ "Q_OVERFLOW" \notin Visited[i].mask => OverflowCount = 0

(* C16 witness: a record carrying both control flags and a translatable flag
   was visited and reported as an overflow. *)
C16_Witness ==
    /\ Len(Visited) = 1
    /\ {"Q_OVERFLOW", "IGNORED", "CREATE"} \subseteq Visited[1].mask
    /\ last = OverflowFailure
    /\ Translated = <<>>

(* The native queue only grew at its tail *)
QueueKept == SubSeq(kernel', 1, Len(kernel)) = kernel

(* C17: a step taken with the buffer closed reads nothing from the native
   queue, visits no record and pushes nothing: the buffer stays closed and
   gets no longer, and the translated events stay what they were.  Once the
   buffer is closed the translated events are those of the records before the
   closing record: the records read after it in its batch, and the records
   still in the native queue, are not among them. *)
C17_NoIngestionAfterClose ==
    [][/\ buffer.closed =>
             /\ readSoFar' = readSoFar
             /\ nProcessed' = nProcessed
             /\ QueueKept
             /\ buffer'.closed
             /\ Len(buffer'.internal) <= Len(buffer.internal)
             /\ Translated' = Translated
       /\ buffer'.closed =>
             /\ nProcessed' = Len(PreControl') + 1
             /\ Translated' = TranslateAll(PreControl')]_vars

(* C17 witness: the stream has ended with a record read after the closing
   record in its batch and a record emitted since, both undelivered. *)
C17_Witness ==
    /\ Ended
    /\ Len(readSoFar) > nProcessed
    /\ kernel # <<>>
    /\ Len(Translated) < Len(readSoFar) - 1

(* A step that is a pull of the consumer: the adapter is constructed and the
   native queue did not grow *)
PullStep == phase = "Active" /\ Len(kernel') <= Len(kernel)

(* C18: a pull returns one of Pending, Item, EndOfStream and Failure.  It
   returns Pending only with the buffer open and empty before it and no
   record read by it, and then leaves the buffer as it was.  With an event in
   the buffer before it, a pull that does not fail returns the oldest one. *)
C18_PendingOnlyWhenIdle ==
    [][PullStep =>
         /\ last'.type \in {"Pending", "Item", "EndOfStream", "Failure"}
         /\ last' = Pending =>
               /\ ~buffer.closed
               /\ buffer.internal = <<>>
               /\ readSoFar' = readSoFar
               /\ kernel' = kernel
               /\ buffer' = buffer
         /\ (buffer.internal # <<>> /\ last'.type # "Failure") =>
               last' = Item(Head(buffer.internal))]_vars

(* C18 witness: after an event was yielded, a pull found nothing ready and
   returned Pending. *)
C18_Witness ==
    /\ last = Pending
    /\ Len(Yielded) >= 1
    /\ kernel = <<>> /\ buffer.internal = <<>> /\ ~buffer.closed

----------------------------------------------------------------------------
(* The input paths ahead of the first one whose registration fails *)
BeforeFirstBad(paths, bad) ==
    LET failing == {i \in 1..Len(paths) : paths[i] \in bad}
    IN IF failing = {} THEN paths
       ELSE SubSeq(paths, 1, (CHOOSE i \in failing : \A j \in failing : i <= j) - 1)

AllEventsWatches(paths) ==
    [i \in 1..Len(paths) |-> [path |-> paths[i], mask |-> ALL_EVENTS]]

(* C19: once new has returned, the watches it registered are ALL_EVENTS
   watches on the input paths ahead of the first failing one, in input order
   (none if the session could not be opened); it succeeded exactly when the
   session opened and no registration failed, and the adapter it then
   returned watches the input paths, each once, and nothing else. *)
C19_WatchesExactlyInput ==
    phase # "Constructing" =>
        /\ registered =
              IF newInput.initOk
              THEN AllEventsWatches(BeforeFirstBad(newInput.paths, newInput.bad))
              ELSE <<>>
        /\ phase = "Active" <=>
              (newInput.initOk /\ Range(newInput.paths) \cap newInput.bad = {})
        /\ phase = "Active" <=> newResult = OkBackend
        /\ phase = "Active" =>
              /\ session.open
              /\ session.watches = AllEventsWatches(newInput.paths)
              /\ {w.path : w \in Range(session.watches)} = Range(newInput.paths)

(* C19 witness: the first of two paths failed to register and the second,
   which would have registered, was never tried. *)
C19_Witness ==
    /\ phase = "Failed" /\ newInput.initOk
    /\ Len(newInput.paths) = 2
    /\ newInput.paths[1] \in newInput.bad
    /\ newInput.paths[2] \notin newInput.bad
    /\ registered = <<>>

----------------------------------------------------------------------------
(* The batching, on its own: an adapter over one path whose native queue
   holds about one read's worth of records, told apart by their cookies *)
BatchRecord(i) ==
    [wd |-> 1, mask |-> {"MOVED_FROM"}, cookie |-> i, name |-> Some("a")]

InitB ==
    /\ phase = "Active"
    /\ newResult = OkBackend
    /\ session = AddWatch(InotifyInit, "/w1", ALL_EVENTS)
    /\ registered = session.watches
    /\ setupFailed = FALSE
    /\ newInput = [paths |-> <<"/w1">>, initOk |-> TRUE, bad |-> {}]
    /\ \E n \in (BatchMax - 1)..(BatchMax + MaxExtra) :
          kernel = [i \in 1..n |-> BatchRecord(i)]
    /\ buffer = BufferNew
    /\ last = NotPolled
    /\ obs = <<>>
    /\ readSoFar = <<>>
    /\ nProcessed = 0
    /\ closedAt = -1
    /\ closedWith = <<>>
    /\ arg = NotApplied
    /\ ret = NotApplied

BatchSpec == InitB /\ [][Pull]_vars

(* C20: the read buffer holds 200 records on either target, and one pull
   reads, visits and pushes at most 200 records and yields at most one event;
   what it does not read stays in the native queue, in order, behind what it
   read. *)
C20_BatchBound ==
    /\ [](BUFFER_SIZE \div EVENT_SIZE = 200)
    /\ [](BUFFER_SIZE_32 \div EVENT_SIZE_32 = 200)
    /\ [][/\ Len(readSoFar') - Len(readSoFar) <= 200
          /\ nProcessed' - nProcessed <= 200
          /\ Len(Translated') - Len(Translated) <= 200
          /\ Len(Yielded') - Len(Yielded) <= 1
          /\ readSoFar' \o kernel' = readSoFar \o kernel
          /\ Len(kernel) > 200 =>
                kernel' \in {kernel, SubSeq(kernel, 201, Len(kernel))}]_vars

(* C20 witness: the first pull read a full batch of 200, yielded one event
   and left the rest of the queue for the next pull. *)
C20_Witness ==
    /\ Len(readSoFar) = 200
    /\ Len(kernel) = MaxExtra
    /\ kernel[1] = BatchRecord(201)
    /\ Len(Yielded) = 1
    /\ Len(buffer.internal) = 199

----------------------------------------------------------------------------
ReadFailure == Failure("Io")

(* What the next pull returns if its native read succeeds *)
NextPull == poll(buffer, kernel, TRUE)

(* C21: a pull whose native read fails returns the failure and changes
   nothing else: no event is yielded or removed, the buffer, the native queue
   and the records read so far are as before, and the adapter stays Active.
   After it the buffer is still open, and a pull whose read succeeds reads
   the head of the native queue and returns an event whenever one is
   buffered or the queue starts with a record that translates. *)
C21_ReadFailureFrame ==
    /\ [][(PullStep /\ last' = ReadFailure) =>
             /\ buffer' = buffer
             /\ kernel' = kernel
             /\ obs' = obs
             /\ readSoFar' = readSoFar /\ nProcessed' = nProcessed
             /\ closedAt' = closedAt
             /\ phase' = "Active" /\ session' = session]_vars
    /\ [](last = ReadFailure =>
             /\ phase = "Active" /\ ~buffer.closed
             /\ NextPull.nread = Len(read_events(kernel))
             /\ kernel # <<>> => NextPull.nread >= 1
             /\ (\/ buffer.internal # <<>>
                 \/ kernel # <<>> /\ Head(kernel).mask \cap ControlFlags = {})
                   => NextPull.result.type \in {"Item", "Failure"}
             /\ (buffer.internal # <<>> /\ NextPull.result.type = "Item")
                   => NextPull.result = Item(Head(buffer.internal)))

(* C21 witness: a native read failed with an event buffered and a record
   waiting in the native queue, after an event had been yielded. *)
C21_Witness ==
    /\ last = ReadFailure
    /\ buffer.internal # <<>> /\ ~buffer.closed
    /\ kernel # <<>>
    /\ Len(Yielded) >= 1

----------------------------------------------------------------------------
(* The pulls made on the closed buffer, up to the one that returned
   end-of-stream: each of them is observed, and so is the pull that closed
   the buffer, which is not one of them *)
PullsSinceClose == Len(ObsSinceClose) - 1

(* C22 as stated: end-of-stream is reached after at most as many pulls on
   the closed buffer as events were buffered at closure. *)
C22_DrainWithinBuffered ==
    (buffer.closed /\ Ended) => PullsSinceClose <= Len(closedWith)

C22_Safe ==
    buffer.closed =>
        /\ closedAt >= 0
        /\ PullsSinceClose <= Len(closedWith) + 1
        /\ (Ended /\ OverflowProcessed) => PullsSinceClose = Len(closedWith) + 1
        /\ (Ended /\ IgnoredClosed /\ closedWith # <<>>) =>
              PullsSinceClose = Len(closedWith)
        /\ (Ended /\ IgnoredClosed /\ closedWith = <<>>) => PullsSinceClose = 0

C22_ClosedPull ==
    (PullStep /\ buffer.closed) =>
        /\ last' # Pending
        /\ buffer.internal # <<>> =>
              (last' = Item(Head(buffer.internal))
               /\ buffer'.internal = Tail(buffer.internal))
        /\ buffer.internal = <<>> => last' = EndOfStream
        /\ ~Ended => Len(obs') = Len(obs) + 1
        /\ kernel' = kernel /\ readSoFar' = readSoFar

(* C22, amended: a pull on a closed buffer never returns Pending: it returns
   the oldest buffered event, or end-of-stream when none is left, and reads
   nothing from the native queue.  A consumer that keeps pulling reaches
   end-of-stream, after at most one pull more than there were events in the
   buffer at closure: exactly one more after an overflow, whose pull returned
   the failure and yielded nothing; exactly as many after an ignored record
   that found events buffered; none when it found the buffer empty. *)
C22_ClosedNeverSuspends ==
    /\ [][C22_ClosedPull]_vars
    /\ [](C22_Safe)
    /\ (buffer.closed ~> Ended)

(* C22 witness: an overflow closed a buffer holding one event, and
   end-of-stream came with the second pull after it, a record still waiting
   in the native queue. *)
C22_Witness ==
    /\ Ended /\ OverflowProcessed
    /\ Len(closedWith) = 1
    /\ PullsSinceClose = 2
    /\ kernel # <<>>

----------------------------------------------------------------------------
(* All the records the kernel has emitted, read or not *)
Emitted == readSoFar \o kernel

(* The ignored record that closed the buffer came from watch w, one of
   several, and a translatable record of another watch follows it *)
OtherWatchAfterIgnored(i) ==
    /\ i \in 1..Len(Visited)
    /\ "IGNORED" \in Visited[i].mask
    /\ Len(session.watches) >= 2
    /\ \E j \in (i + 1)..Len(Emitted) :
          /\ Emitted[j].wd \in 1..Len(session.watches)
          /\ Emitted[j].wd # Visited[i].wd
          /\ Emitted[j].mask \cap ControlFlags = {}

C23_Safe ==
    \A i \in 1..Len(Visited) :
        ("IGNORED" \in Visited[i].mask /\ Len(session.watches) >= 2) =>
            /\ buffer.closed
            /\ session.open
            /\ session.watches = AllEventsWatches(newInput.paths)
            /\ nProcessed = i
            /\ Translated = TranslateAll(SubSeq(Emitted, 1, i - 1))
            /\ Ended => (last = EndOfStream /\ Len(Yielded) = i - 1)

(* C23: with several paths watched, an ignored record for one of them closes
   the buffer: the events translated are those of the records before it,
   whichever watch the later records come from and although the other
   watches stay registered, and a consumer that keeps pulling reaches
   end-of-stream. *)
C23_OneRemovalEndsAll ==
    /\ [](C23_Safe)
    /\ ((IgnoredClosed /\ Len(session.watches) >= 2) ~> Ended)

(* C23 witness: two paths are watched; after an event of the second, the
   first watch was removed, and the stream has ended with a later record of
   the second watch undelivered. *)
C23_Witness ==
    /\ Ended /\ IgnoredClosed
    /\ Len(Yielded) = 1
    /\ Visited[2].wd = 1
    /\ OtherWatchAfterIgnored(2)

====
